---------------------------- MODULE Spec2Model ----------------------------
(***************************************************************************)
(* Model of the projection validator (validation_framework_corrected.py):  *)
(* the Parameter Table built by load_parameters, interpolate_value, the    *)
(* scenario policy, the three derivation stages and the batch drivers.     *)
(* The first validator (validation_framework.py), which scales every       *)
(* interpolated input by the scenario, is modelled beside it.              *)
(*                                                                         *)
(* Numbers.  The program computes in IEEE doubles; the model computes the  *)
(* same expressions exactly.  A value is a record [n, d, e]:               *)
(*     d > 0   the number (n/d) * (101/100)^e, in canonical form           *)
(*             (gcd(n, d) = 1, 101 divides neither n nor d, zero is        *)
(*             0/1 with e = 0), so equal numbers are equal records.        *)
(*             The factor 101/100 = 1 + 0.01 is kept as an exponent so     *)
(*             that compounding at the default growth rate stays within    *)
(*             the integers of the model checker;                          *)
(*     d = 0   a non-number: n = 0 is NaN, n = 1 / -1 is +inf / -inf;      *)
(*     d = -1  no value: the evaluation raised KeyError.                   *)
(***************************************************************************)
EXTENDS Integers, Sequences, FiniteSets, TLC

VARIABLES rows, parameters, pc, call, result, reads

vars == <<rows, parameters, pc, call, result, reads>>

----------------------------------------------------------------------------
(* Exact arithmetic with the IEEE special values.                          *)

NaN == [n |-> 0, d |-> 0, e |-> 0]

PosInf == [n |-> 1, d |-> 0, e |-> 0]

NegInf == [n |-> -1, d |-> 0, e |-> 0]

KeyError == [n |-> 0, d |-> -1, e |-> 0]

Zero == [n |-> 0, d |-> 1, e |-> 0]

One == [n |-> 1, d |-> 1, e |-> 0]

IsNumber(x) == x.d > 0

IsNaN(x) == x = NaN

IsInf(x) == x.d = 0 /\ x.n # 0

Raised(x) == x.d = -1

Abs(i) == IF i < 0 THEN -i ELSE i

Sign(i) == IF i > 0 THEN 1 ELSE IF i < 0 THEN -1 ELSE 0

RECURSIVE GCD(_, _)
GCD(a, b) == IF b = 0 THEN a ELSE GCD(b, a % b)

\* n/d * (101/100)^e for coprime n, d > 0, with every factor 101 of n or d
\* moved into the exponent.
RECURSIVE Strip(_, _, _)
Strip(n, d, e) ==
    IF n % 101 = 0
    THEN Strip((n \div 101) * (100 \div GCD(100, d)), d \div GCD(100, d), e + 1)
    ELSE IF d % 101 = 0
    THEN Strip(n \div GCD(100, n), (d \div 101) * (100 \div GCD(100, n)), e - 1)
    ELSE [n |-> n, d |-> d, e |-> e]

\* The record x with the sign of the integer i.
Signed(i, x) == [n |-> Sign(i) * x.n, d |-> x.d, e |-> x.e]

\* The canonical record of n/d * (101/100)^e, for d > 0.
Canon(n, d, e) ==
    IF n = 0 THEN Zero
    ELSE Signed(n, Strip(Abs(n) \div GCD(Abs(n), d), d \div GCD(Abs(n), d), e))

Rat(n, d) == Canon(n, d, 0)

Int2Num(i) == Canon(i, 1, 0)

\* An integer from 0 to 100 is its own canonical record.
Small(i) == [n |-> i, d |-> 1, e |-> 0]

RNeg(x) == IF x.d >= 0 THEN [n |-> -x.n, d |-> x.d, e |-> x.e] ELSE x

\* x * y: an operand that raised aborts the expression; NaN absorbs;
\* inf * 0 is NaN.
RMul(x, y) ==
    IF Raised(x) \/ Raised(y) THEN KeyError
    ELSE IF x.d = 0 \/ y.d = 0
         THEN IF Sign(x.n) * Sign(y.n) = 0 THEN NaN
              ELSE IF Sign(x.n) * Sign(y.n) > 0 THEN PosInf ELSE NegInf
    ELSE IF x.n = 0 \/ y.n = 0 THEN Zero
    ELSE Canon((x.n \div GCD(Abs(x.n), y.d)) * (y.n \div GCD(Abs(y.n), x.d)),
               (x.d \div GCD(Abs(y.n), x.d)) * (y.d \div GCD(Abs(x.n), y.d)),
               x.e + y.e)

RECURSIVE IntPow(_, _)
IntPow(b, k) == IF k = 0 THEN 1 ELSE b * IntPow(b, k - 1)

\* The plain fraction <<numerator, denominator>> of (x.n / x.d) * p / q, for
\* p a power of 101 and q the same power of 100.
ExpandBy(x, p, q) ==
    <<(x.n \div GCD(Abs(x.n), q)) * p, x.d * (q \div GCD(Abs(x.n), q))>>

\* a + b for plain fractions a and b that share the exponent e.
AddAligned(a, b, e) ==
    Canon(a[1] * (b[2] \div GCD(a[2], b[2])) + b[1] * (a[2] \div GCD(a[2], b[2])),
          (a[2] \div GCD(a[2], b[2])) * b[2], e)

\* x + y for numbers x and y, brought to the smaller exponent e.
AddAt(x, y, e) ==
    AddAligned(ExpandBy(x, IntPow(101, x.e - e), IntPow(100, x.e - e)),
               ExpandBy(y, IntPow(101, y.e - e), IntPow(100, y.e - e)), e)

\* x + y: inf + (-inf) is NaN.
RAdd(x, y) ==
    IF Raised(x) \/ Raised(y) THEN KeyError
    ELSE IF x.d = 0 \/ y.d = 0
         THEN IF IsNaN(x) \/ IsNaN(y) \/ (x.d = 0 /\ y.d = 0 /\ x # y) THEN NaN
              ELSE IF x.d = 0 THEN x ELSE y
    ELSE IF x.n = 0 THEN y
    ELSE IF y.n = 0 THEN x
    ELSE AddAt(x, y, IF x.e < y.e THEN x.e ELSE y.e)

RSub(x, y) == RAdd(x, RNeg(y))

\* x / k for a positive integer literal k below 101 (the band widths 5, 6, 12).
RDivInt(x, k) == RMul(x, [n |-> 1, d |-> k, e |-> 0])

\* x ** k for an integer k >= 0; x ** 0 is 1.0 for every x, NaN included.
RECURSIVE RPow(_, _)
RPow(x, k) ==
    IF Raised(x) THEN KeyError
    ELSE IF k = 0 THEN One
    ELSE RMul(x, RPow(x, k - 1))

\* x > 0 as Python evaluates it: False for NaN.
RPositive(x) == x.d >= 0 /\ x.n > 0

\* x / y in numpy's float64 arithmetic: x / 0 is +-inf, 0 / 0 is NaN, and
\* nothing is raised.
RDiv(x, y) ==
    IF Raised(x) \/ Raised(y) THEN KeyError
    ELSE IF y.d = 0 THEN (IF IsNaN(y) \/ x.d = 0 THEN NaN ELSE Zero)
    ELSE IF y.n = 0
         THEN IF x.n = 0 THEN NaN ELSE IF x.n > 0 THEN PosInf ELSE NegInf
    ELSE RMul(x, [n |-> Sign(y.n) * y.d, d |-> Abs(y.n), e |-> -y.e])

----------------------------------------------------------------------------
(* Bounds of the model and the inputs it enumerates.                       *)

\* Months queried are 1 .. MaxMonth; 37 and later take the growth branch.
MaxMonth == 39

\* How many of the Variations below one input sheet combines.
MaxVariations == 2

Months == 1 .. MaxMonth

\* The months the stages and the drivers are called with: the anchors, one
\* month inside each band, and every month beyond 36.
StageMonths == {m \in Months : m \in {1, 3, 6, 7, 12, 18, 24, 30, 36} \/ m > 36}

\* The input-types interpolate_value is called with: those some sheet holds,
\* and one no sheet holds.
QueriedTypes ==
    {"Accounts", "ActiveShare", "CheckingShare", "SavingShare", "ACHinPerActive",
     "ACHinRate", "WireInPerActive", "WireInRate", "GrowthRateM37Plus", "ACHoutRate"}

AccountTypes == {"Accounts"}

ShareTypes == {"ActiveShare", "CheckingShare", "SavingShare"}

Channels ==
    <<"ach_incoming", "ach_outgoing", "rtp_incoming", "rtp_outgoing",
      "wire_incoming", "wire_outgoing", "debit_card">>

\* The per-active rate input-type each channel's volume reads.
PerActiveType(c) ==
    CASE c = "ach_incoming"  -> "ACHinPerActive"
      [] c = "ach_outgoing"  -> "ACHoutPerActive"
      [] c = "rtp_incoming"  -> "RTPinPerActive"
      [] c = "rtp_outgoing"  -> "RTPoutPerActive"
      [] c = "wire_incoming" -> "WireInPerActive"
      [] c = "wire_outgoing" -> "WireOutPerActive"
      [] c = "debit_card"    -> "DebitCardTransactionsPerActive"

\* The fee rate input-type each channel's revenue reads.
FeeType(c) ==
    CASE c = "ach_incoming"  -> "ACHinRate"
      [] c = "ach_outgoing"  -> "ACHoutRate"
      [] c = "rtp_incoming"  -> "RTPinRate"
      [] c = "rtp_outgoing"  -> "RTPoutRate"
      [] c = "wire_incoming" -> "WireInRate"
      [] c = "wire_outgoing" -> "WireOutRate"
      [] c = "debit_card"    -> "DebitCardTransactionRate"

ChannelSet == {Channels[i] : i \in 1 .. Len(Channels)}

RateTypes == {PerActiveType(c) : c \in ChannelSet}

FeeTypes == {FeeType(c) : c \in ChannelSet}

\* Every input-type a stage reads other than Accounts.
NonAccountTypes == ShareTypes \cup RateTypes \cup FeeTypes

GrowthType == "GrowthRateM37Plus"

InputTypes == AccountTypes \cup NonAccountTypes \cup {GrowthType}

Scenarios == {"Base", "High_10", "Low_10", "High_25", "Low_25", "Custom", "Unlisted"}

\* One row of the MonthlyInputs sheet.
Row(t, m, v) == [InputType |-> t, Month |-> m, Value |-> v]

\* The five anchor rows of one input-type.
Series(t, v1, v6, v12, v24, v36) ==
    <<Row(t, 1, v1), Row(t, 6, v6), Row(t, 12, v12), Row(t, 24, v24), Row(t, 36, v36)>>

\* A fully specified sheet: eight input-types at all five anchors (two of the
\* seven channels carry traffic), no growth entry.
BaseRows ==
    Series("Accounts", Int2Num(1000), Int2Num(1500), Int2Num(2000), Int2Num(3000), Int2Num(4000))
    \o Series("ActiveShare", Rat(3, 4), Rat(1, 2), Rat(4, 5), Rat(4, 5), Rat(1, 5))
    \o Series("CheckingShare", Rat(1, 2), Rat(3, 4), Rat(9, 20), Rat(9, 20), Rat(3, 4))
    \o Series("SavingShare", Rat(1, 4), Rat(1, 4), Rat(11, 20), Rat(1, 4), Rat(1, 4))
    \o Series("ACHinPerActive", Int2Num(2), Int2Num(7), Int2Num(1), Int2Num(13), Int2Num(1))
    \o Series("ACHinRate", Rat(1, 4), Rat(3, 2), Int2Num(0), Int2Num(3), Int2Num(6))
    \o Series("WireInPerActive", Int2Num(1), Int2Num(1), Int2Num(7), Int2Num(7), Int2Num(19))
    \o Series("WireInRate", Int2Num(3), Int2Num(8), Int2Num(2), Int2Num(2), Int2Num(14))

\* Rows some sheets carry ahead of the base rows, each a second row for a
\* pair the base rows carry too: one whose Value cell is blank (read_excel
\* reads it as NaN), and shares outside [0, 1] (ActiveShare 3/2 at month 1,
\* CheckingShare -1/4 at month 6) with CheckingShare + SavingShare above 1
\* (3/4 + 1/2 at month 1).
FrontRows ==
    <<[v |-> "BlankFirst", row |-> Row("Accounts", 6, NaN)],
      [v |-> "SharesFirst", row |-> Row("ActiveShare", 1, Rat(3, 2))],
      [v |-> "SharesFirst", row |-> Row("CheckingShare", 1, Rat(3, 4))],
      [v |-> "SharesFirst", row |-> Row("SavingShare", 1, Rat(1, 2))],
      [v |-> "SharesFirst", row |-> Row("CheckingShare", 6, Rat(-1, 4))]>>

\* Rows some sheets carry in addition, after the base rows; the last one is a
\* second row for a pair the base rows carry too.
ExtraRows ==
    <<[v |-> "Growth37", row |-> Row(GrowthType, 37, Rat(-1, 2))],
      [v |-> "Growth12", row |-> Row(GrowthType, 12, Rat(1, 50))],
      [v |-> "Accounts37", row |-> Row("Accounts", 37, Int2Num(4100))],
      [v |-> "AccountsAgain", row |-> Row("Accounts", 6, Int2Num(9000))]>>

\* The ways a sheet departs from the base sheet: rows it lacks, rows it adds.
Variations ==
    {"NoAccounts1", "NoActiveShare6", "NoMonth24", "NoAccounts", "NoActiveShare",
     "Growth37", "Growth12", "Accounts37", "SharesFirst", "AccountsAgain",
     "BlankFirst"}

Lacks(S, r) ==
    \/ "NoAccounts1" \in S /\ r.InputType = "Accounts" /\ r.Month = 1
    \/ "NoActiveShare6" \in S /\ r.InputType = "ActiveShare" /\ r.Month = 6
    \/ "NoMonth24" \in S /\ r.Month = 24
    \/ "NoAccounts" \in S /\ r.InputType = "Accounts"
    \/ "NoActiveShare" \in S /\ r.InputType = "ActiveShare"

RECURSIVE Filter(_, _)
Filter(s, S) ==
    IF s = <<>> THEN <<>>
    ELSE (IF Lacks(S, Head(s)) THEN <<>> ELSE <<Head(s)>>) \o Filter(Tail(s), S)

RECURSIVE Added(_, _)
Added(s, S) ==
    IF s = <<>> THEN <<>>
    ELSE (IF Head(s).v \in S THEN <<Head(s).row>> ELSE <<>>) \o Added(Tail(s), S)

\* The rows of the sheet with the variations S.
SheetRows(S) == Filter(Added(FrontRows, S) \o BaseRows \o Added(ExtraRows, S), S)

Sheets == {SheetRows(S) : S \in {T \in SUBSET Variations : Cardinality(T) <= MaxVariations}}

----------------------------------------------------------------------------
(* The Parameter Table: load_parameters.                                   *)

\* The (InputType, Month) pairs of the rows.
Keys(s) == {<<s[i].InputType, s[i].Month>> : i \in 1 .. Len(s)}

\* The rows whose Value is not null.  The 'first' aggregation of a group is
\* its first non-null value, and a group with none leaves no entry.
Valued(s) == SelectSeq(s, LAMBDA r : ~IsNaN(r.Value))

\* aggfunc='first' on rows that all carry a value: the value of the first
\* row carrying the pair k.
FirstValue(s, k) ==
    LET i == CHOOSE j \in 1 .. Len(s) :
                 /\ <<s[j].InputType, s[j].Month>> = k
                 /\ \A h \in 1 .. (j - 1) : <<s[h].InputType, s[h].Month>> # k
    IN  s[i].Value

\* The aggregated frame of the rows s, all of which carry a value.
Pivoted(s) ==
    [index   |-> {k[1] : k \in Keys(s)},
     columns |-> {k[2] : k \in Keys(s)},
     cells   |-> [k \in Keys(s) |-> FirstValue(s, k)]]

\* df.pivot_table(index='InputType', columns='Month', values='Value',
\* aggfunc='first'): a frame whose index holds the input-types that have a
\* row with a value, whose columns hold the months for which some input-type
\* has such a row, and whose populated cells hold the first non-null value
\* of their pair.
pivot_table(s) == Pivoted(Valued(s))

\* self.parameters = None
None == [index |-> {}, columns |-> {}, cells |-> <<>>]

Index(p) == p.index

Columns(p) == p.columns

\* A cell of the frame: an unpopulated cell of an existing row and column
\* holds NaN.
Cell(p, t, m) == IF <<t, m>> \in DOMAIN p.cells THEN p.cells[<<t, m>>] ELSE NaN

\* row.get(m, default) on the row of t: the default is returned only when the
\* frame has no column m.
RowGet(p, t, m, default) == IF m \in Columns(p) THEN Cell(p, t, m) ELSE default

\* parameters.loc[t, m] for a t of the index: KeyError when the frame has no
\* column m.
Loc(p, t, m) == IF m \in Columns(p) THEN Cell(p, t, m) ELSE KeyError

----------------------------------------------------------------------------
(* The Interpolator: interpolate_value.                                    *)

\* The band formula with the month offset taken one too far.
BandMisplaced(lo_val, hi_val, lo, width, month) ==
    RAdd(lo_val, RDivInt(RMul(RSub(hi_val, lo_val), Small(month - lo + 1)), width))

\* lo_val + (hi_val - lo_val) * (month - lo) / width
Band(lo_val, hi_val, lo, width, month) ==
    RAdd(lo_val, RDivInt(RMul(RSub(hi_val, lo_val), Small(month - lo)), width))

\* The growth rate beyond month 36: the cell (GrowthRateM37Plus, 37) when the
\* input-type has a row, else 0.01.
growth_rate(p) ==
    IF GrowthType \in Index(p) THEN Loc(p, GrowthType, 37) ELSE Rat(1, 100)

\* m36_val * ((1 + growth_rate) ** (month - 36))
Extrapolate(p, m36_val, month) ==
    RMul(m36_val, RPow(RAdd(One, growth_rate(p)), month - 36))

interpolate_value(p, input_type, month) ==
    IF input_type \notin Index(p) THEN Zero
    ELSE LET m1_val  == RowGet(p, input_type, 1, Zero)
             m6_val  == RowGet(p, input_type, 6, Zero)
             m12_val == RowGet(p, input_type, 12, Zero)
             m24_val == RowGet(p, input_type, 24, Zero)
             m36_val == RowGet(p, input_type, 36, Zero)
         IN  IF month = 1 THEN m1_val
             ELSE IF month <= 6 THEN Band(m1_val, m6_val, 1, 5, month)
             ELSE IF month <= 12 THEN Band(m6_val, m12_val, 6, 6, month)
             ELSE IF month <= 24 THEN Band(m12_val, m24_val, 12, 12, month)
             ELSE IF month <= 36 THEN Band(m24_val, m36_val, 24, 12, month)
             ELSE Extrapolate(p, m36_val, month)

----------------------------------------------------------------------------
(* The Scenario Policy and the three stages.                               *)

\* A table of multipliers in which "Custom" is not neutral.
scenario_multiplier_custom(scenario) ==
    CASE scenario = "Base"    -> One
      [] scenario = "High_10" -> Rat(11, 10)
      [] scenario = "Low_10"  -> Rat(9, 10)
      [] scenario = "High_25" -> Rat(5, 4)
      [] scenario = "Low_25"  -> Rat(3, 4)
      [] scenario = "Custom"  -> Rat(11, 10)
      [] OTHER                -> One

\* scenario_multipliers.get(scenario, 1.0)
scenario_multiplier(scenario) ==
    CASE scenario = "Base"    -> One
      [] scenario = "High_10" -> Rat(11, 10)
      [] scenario = "Low_10"  -> Rat(9, 10)
      [] scenario = "High_25" -> Rat(5, 4)
      [] scenario = "Low_25"  -> Rat(3, 4)
      [] scenario = "Custom"  -> One
      [] OTHER                -> One

get_accounts_with_scenario(p, month, scenario) ==
    RMul(interpolate_value(p, "Accounts", month), scenario_multiplier(scenario))

\* What the naive validator does: every input is scaled by the scenario.
stage_input_scaled(p, input_type, month, scenario) ==
    RMul(interpolate_value(p, input_type, month), scenario_multiplier(scenario))

\* How a stage reads a share, a per-active rate or a fee rate:
\* self.interpolate_value(input_type, month); the scenario is not passed on.
stage_input(p, input_type, month, scenario) == interpolate_value(p, input_type, month)

\* Whether the evaluation of some entry of the dict d raised.
AnyRaised(d) == \E f \in DOMAIN d : Raised(d[f])

\* What a stage hands to its caller: the dict, or, when the evaluation of any
\* entry raised, the exception and no dict at all.
Returned(d) == IF AnyRaised(d) THEN [f \in DOMAIN d |-> KeyError] ELSE d

\* A share confined to [0, 1].
Clamped(x) ==
    IF ~IsNumber(x) THEN x
    ELSE IF x.n < 0 THEN Zero
    ELSE IF RPositive(RSub(x, One)) THEN One
    ELSE x

\* A stage 1 that validates its shares: each is confined to [0, 1] first.
AccountsDictClamped(total_accounts, share) ==
    [total_accounts    |-> total_accounts,
     active_accounts   |-> RMul(total_accounts, Clamped(share["ActiveShare"])),
     checking_accounts |-> RMul(RMul(total_accounts, Clamped(share["ActiveShare"])),
                                Clamped(share["CheckingShare"])),
     savings_accounts  |-> RMul(RMul(total_accounts, Clamped(share["ActiveShare"])),
                                Clamped(share["SavingShare"]))]

\* The dict calculate_accounts builds from total_accounts and the three
\* shares it has read.
AccountsDict(total_accounts, share) ==
    [total_accounts    |-> total_accounts,
     active_accounts   |-> RMul(total_accounts, share["ActiveShare"]),
     checking_accounts |-> RMul(RMul(total_accounts, share["ActiveShare"]),
                                share["CheckingShare"]),
     savings_accounts  |-> RMul(RMul(total_accounts, share["ActiveShare"]),
                                share["SavingShare"])]

calculate_accounts(p, month, scenario) ==
    Returned(AccountsDict(get_accounts_with_scenario(p, month, scenario),
                          [t \in ShareTypes |-> stage_input(p, t, month, scenario)]))

\* sum(d.values()) over the seven channel entries, in insertion order, from 0.
RECURSIVE SumChannels(_, _)
SumChannels(d, k) ==
    IF k = 0 THEN Zero ELSE RAdd(SumChannels(d, k - 1), d[Channels[k]])

\* A total taken once the total entry is in the dict: the seven channel
\* entries and the total entry itself.
WithTotalIncluded(d, key) ==
    [c \in ChannelSet \cup {key} |->
        IF c = key
        THEN RAdd(SumChannels(d, Len(Channels)), SumChannels(d, Len(Channels)))
        ELSE d[c]]

\* d[key] = sum(d.values()): the total is taken over the seven channel
\* entries, before the total entry exists.
WithTotal(d, key) ==
    [c \in ChannelSet \cup {key} |->
        IF c = key THEN SumChannels(d, Len(Channels)) ELSE d[c]]

\* The body of calculate_transactions after its call of calculate_accounts
\* has returned the dict accounts (or raised).
TransactionsFrom(p, month, scenario, accounts) ==
    Returned(WithTotal([c \in ChannelSet |->
                           RMul(accounts.active_accounts,
                                stage_input(p, PerActiveType(c), month, scenario))],
                       "total_volume"))

calculate_transactions(p, month, scenario) ==
    TransactionsFrom(p, month, scenario, calculate_accounts(p, month, scenario))

\* The body of calculate_revenue after its call of calculate_transactions
\* has returned the dict transactions (or raised).
RevenueFrom(p, month, scenario, transactions) ==
    Returned(WithTotal([c \in ChannelSet |->
                           RMul(transactions[c],
                                stage_input(p, FeeType(c), month, scenario))],
                       "total_revenue"))

calculate_revenue(p, month, scenario) ==
    RevenueFrom(p, month, scenario, calculate_transactions(p, month, scenario))

----------------------------------------------------------------------------
(* The batch and comparison drivers.  A stage is a pure function of the    *)
(* table, so where a driver calls several stages for the same month and    *)
(* scenario, the dict an inner call computes is the one the driver's own   *)
(* call of that stage returned.                                            *)

\* One row of the batch, from the dicts of the three stages.
BatchRow(month, scenario, accounts, transactions, revenue) ==
    [Month        |-> month,
     Scenario     |-> scenario,
     Accounts     |-> accounts,
     Transactions |-> transactions,
     Revenue      |-> revenue]

RowFromTransactions(p, month, scenario, accounts, transactions) ==
    BatchRow(month, scenario, accounts, transactions,
             RevenueFrom(p, month, scenario, transactions))

RowFromAccounts(p, month, scenario, accounts) ==
    RowFromTransactions(p, month, scenario, accounts,
                        TransactionsFrom(p, month, scenario, accounts))

\* The rows generate_test_data builds for one month: one per scenario, each
\* from calculate_accounts, calculate_transactions and calculate_revenue.
RECURSIVE MonthRows(_, _, _, _)
MonthRows(p, month, scenarios, k) ==
    IF k = 0 THEN <<>>
    ELSE Append(MonthRows(p, month, scenarios, k - 1),
                RowFromAccounts(p, month, scenarios[k],
                                calculate_accounts(p, month, scenarios[k])))

\* generate_test_data(months_range=(lo, hi), scenarios): month in range(lo, hi).
RECURSIVE generate_test_data(_, _, _, _)
generate_test_data(p, lo, hi, scenarios) ==
    IF lo >= hi THEN <<>>
    ELSE MonthRows(p, lo, scenarios, Len(scenarios))
         \o generate_test_data(p, lo + 1, hi, scenarios)

\* The scenarios compare_scenarios walks, in order.
ComparedScenarios == <<"Base", "High_10", "Low_10", "High_25", "Low_25">>

\* One row of the comparison, from the two dicts computed for the scenario.
ComparisonRow(scenario, month, accounts, revenue) ==
    [Scenario          |-> scenario,
     Month             |-> month,
     TotalAccounts     |-> accounts.total_accounts,
     ActiveAccounts    |-> accounts.active_accounts,
     TotalRevenue      |-> revenue["total_revenue"],
     RevenuePerAccount |->
         IF Raised(accounts.total_accounts) \/ Raised(revenue["total_revenue"])
         THEN KeyError
         ELSE IF RPositive(accounts.total_accounts)
              THEN RDiv(revenue["total_revenue"], accounts.total_accounts)
              ELSE Zero]

ComparisonRowFrom(p, scenario, month, accounts) ==
    ComparisonRow(scenario, month, accounts,
                  RevenueFrom(p, month, scenario,
                              TransactionsFrom(p, month, scenario, accounts)))

\* The comparison rows before the variance columns are added.
RECURSIVE ComparisonRows(_, _, _)
ComparisonRows(p, month, k) ==
    IF k = 0 THEN <<>>
    ELSE Append(ComparisonRows(p, month, k - 1),
                ComparisonRowFrom(p, ComparedScenarios[k], month,
                                  calculate_accounts(p, month, ComparedScenarios[k])))

\* The two variance columns, against the values of the Base row.
WithVariance(comparison) ==
    LET base          == CHOOSE i \in 1 .. Len(comparison) : comparison[i].Scenario = "Base"
        base_revenue  == comparison[base].TotalRevenue
        base_accounts == comparison[base].TotalAccounts
    IN  [i \in 1 .. Len(comparison) |->
            [Scenario                  |-> comparison[i].Scenario,
             Month                     |-> comparison[i].Month,
             TotalAccounts             |-> comparison[i].TotalAccounts,
             ActiveAccounts            |-> comparison[i].ActiveAccounts,
             TotalRevenue              |-> comparison[i].TotalRevenue,
             RevenuePerAccount         |-> comparison[i].RevenuePerAccount,
             VarianceFromBase_Revenue  |->
                 RDiv(RSub(comparison[i].TotalRevenue, base_revenue), base_revenue),
             VarianceFromBase_Accounts |->
                 RDiv(RSub(comparison[i].TotalAccounts, base_accounts), base_accounts)]]

compare_scenarios(p, month) ==
    WithVariance(ComparisonRows(p, month, Len(ComparedScenarios)))

----------------------------------------------------------------------------
(* The first validator (validation_framework.py, class ProjectionValidator) *)
(* constructed on the same sheet: its load_parameters is the same           *)
(* statement, so its table is the same frame; its interpolate_value takes   *)
(* the scenario and every stage passes the scenario on.                     *)

\* An interpolator that refuses an input-type without a row.
naive_interpolate_value_strict(p, input_type, month, scenario) ==
    IF input_type \notin Index(p) THEN KeyError
    ELSE RMul(interpolate_value(p, input_type, month), scenario_multiplier(scenario))

\* ProjectionValidator.interpolate_value(input_type, month, scenario): 0 for
\* an input-type without a row, else base_value * multiplier.
naive_interpolate_value(p, input_type, month, scenario) ==
    IF input_type \notin Index(p) THEN Zero
    ELSE LET m1_val  == RowGet(p, input_type, 1, Zero)
             m6_val  == RowGet(p, input_type, 6, Zero)
             m12_val == RowGet(p, input_type, 12, Zero)
             m24_val == RowGet(p, input_type, 24, Zero)
             m36_val == RowGet(p, input_type, 36, Zero)
             base_value ==
                 IF month = 1 THEN m1_val
                 ELSE IF month <= 6 THEN Band(m1_val, m6_val, 1, 5, month)
                 ELSE IF month <= 12 THEN Band(m6_val, m12_val, 6, 6, month)
                 ELSE IF month <= 24 THEN Band(m12_val, m24_val, 12, 12, month)
                 ELSE IF month <= 36 THEN Band(m24_val, m36_val, 24, 12, month)
                 ELSE Extrapolate(p, m36_val, month)
         IN  RMul(base_value, scenario_multiplier(scenario))

naive_calculate_accounts(p, month, scenario) ==
    Returned(AccountsDict(naive_interpolate_value(p, "Accounts", month, scenario),
                          [t \in ShareTypes |->
                              naive_interpolate_value(p, t, month, scenario)]))

\* The body of the first validator's calculate_transactions after its call
\* of calculate_accounts has returned the dict accounts (or raised).
naive_TransactionsFrom(p, month, scenario, accounts) ==
    Returned(WithTotal([c \in ChannelSet |->
                           RMul(accounts.active_accounts,
                                naive_interpolate_value(p, PerActiveType(c), month,
                                                        scenario))],
                       "total_volume"))

naive_calculate_transactions(p, month, scenario) ==
    naive_TransactionsFrom(p, month, scenario, naive_calculate_accounts(p, month, scenario))

\* The body of the first validator's calculate_revenue after its call of
\* calculate_transactions has returned the dict transactions (or raised).
naive_RevenueFrom(p, month, scenario, transactions) ==
    Returned(WithTotal([c \in ChannelSet |->
                           RMul(transactions[c],
                                naive_interpolate_value(p, FeeType(c), month, scenario))],
                       "total_revenue"))

naive_calculate_revenue(p, month, scenario) ==
    naive_RevenueFrom(p, month, scenario, naive_calculate_transactions(p, month, scenario))

\* The input-types and months the first validator is called with: types with
\* and without a row, and months at an anchor, inside bands and beyond 36.
NaiveTypes == {"Accounts", "ActiveShare", "ACHinRate", "ACHoutRate"}

NaiveMonths == {m \in StageMonths : m \in {1, 3, 12, 30, 36} \/ m > 36}

----------------------------------------------------------------------------
(* The validator as a state machine: the constructor loads the table, then *)
(* the caller invokes the methods one at a time.                           *)
(*   pc        "init"      inside __init__, parameters still None          *)
(*             "ready"     constructed, no call in progress                *)
(*             "returned"  the call recorded in `call` has returned        *)
(*                         `result`                                        *)
(*             "raised"    the call raised KeyError, which nothing in the  *)
(*                         program catches                                 *)
(*   reads     what the stages of a batch read for the input-types other   *)
(*             than Accounts: one entry per (month, scenario) evaluated.   *)

NoCall == [op |-> "", input_type |-> "", month |-> 0, hi |-> 0, scenarios |-> <<>>]

Call(op, input_type, month, hi, scenarios) ==
    [op |-> op, input_type |-> input_type, month |-> month, hi |-> hi,
     scenarios |-> scenarios]

\* What the three stages read through stage_input for one (month, scenario).
StageReads(p, month, scenario) ==
    [Month    |-> month,
     Scenario |-> scenario,
     inputs   |-> [t \in NonAccountTypes |-> stage_input(p, t, month, scenario)]]

RECURSIVE BatchReads(_, _, _, _, _)
BatchReads(p, lo, hi, scenarios, k) ==
    IF lo >= hi THEN <<>>
    ELSE IF k > Len(scenarios) THEN BatchReads(p, lo + 1, hi, scenarios, 1)
    ELSE <<StageReads(p, lo, scenarios[k])>>
         \o BatchReads(p, lo, hi, scenarios, k + 1)

\* generate_test_data's default scenarios and the list of every scenario.
DefaultScenarios == <<"Base", "High_10", "Low_10">>

EveryScenario == <<"Base", "High_10", "Low_10", "High_25", "Low_25", "Custom", "Unlisted">>

\* The (months_range, scenarios) arguments of generate_test_data: one month
\* under every scenario, or the first two months under the default scenarios.
BatchArguments ==
    {<<m, m + 1, EveryScenario>> : m \in StageMonths} \cup {<<1, 3, DefaultScenarios>>}

Init ==
    /\ rows \in Sheets
    /\ parameters = None
    /\ pc = "init"
    /\ call = NoCall
    /\ result = <<>>
    /\ reads = <<>>

LoadParameters ==
    /\ pc = "init"
    /\ parameters' = pivot_table(rows)
    /\ pc' = "ready"
    /\ UNCHANGED <<rows, call, result, reads>>

\* The call c completes: it returns r, or the exception leaves the program.
Completes(c, r, raised) ==
    /\ call' = c
    /\ result' = r
    /\ pc' = IF raised THEN "raised" ELSE "returned"

CompletesWithValue(c, r) == Completes(c, r, Raised(r))

CompletesWithDict(c, r) == Completes(c, r, AnyRaised(r))

\* Whether building some row of a batch raised.
BatchRaised(b) ==
    \E i \in 1 .. Len(b) :
        AnyRaised(b[i].Accounts) \/ AnyRaised(b[i].Transactions) \/ AnyRaised(b[i].Revenue)

CompletesWithBatch(c, r) == Completes(c, r, BatchRaised(r))

\* Whether building some row of a comparison raised.
ComparisonRaised(b) ==
    \E i \in 1 .. Len(b) : Raised(b[i].TotalAccounts) \/ Raised(b[i].TotalRevenue)

CompletesWithComparison(c, r) == Completes(c, r, ComparisonRaised(r))

InterpolateValue ==
    /\ pc = "ready"
    /\ \E t \in QueriedTypes, m \in Months :
          CompletesWithValue(Call("interpolate_value", t, m, 0, <<>>),
                             interpolate_value(parameters, t, m))
    /\ reads' = <<>>
    /\ UNCHANGED <<rows, parameters>>

GetAccountsWithScenario ==
    /\ pc = "ready"
    /\ \E m \in Months, s \in Scenarios :
          CompletesWithValue(Call("get_accounts_with_scenario", "", m, 0, <<s>>),
                             get_accounts_with_scenario(parameters, m, s))
    /\ reads' = <<>>
    /\ UNCHANGED <<rows, parameters>>

CalculateAccounts ==
    /\ pc = "ready"
    /\ \E m \in StageMonths, s \in Scenarios :
          CompletesWithDict(Call("calculate_accounts", "", m, 0, <<s>>),
                            calculate_accounts(parameters, m, s))
    /\ reads' = <<>>
    /\ UNCHANGED <<rows, parameters>>

CalculateTransactions ==
    /\ pc = "ready"
    /\ \E m \in StageMonths, s \in Scenarios :
          CompletesWithDict(Call("calculate_transactions", "", m, 0, <<s>>),
                            calculate_transactions(parameters, m, s))
    /\ reads' = <<>>
    /\ UNCHANGED <<rows, parameters>>

CalculateRevenue ==
    /\ pc = "ready"
    /\ \E m \in StageMonths, s \in Scenarios :
          CompletesWithDict(Call("calculate_revenue", "", m, 0, <<s>>),
                            calculate_revenue(parameters, m, s))
    /\ reads' = <<>>
    /\ UNCHANGED <<rows, parameters>>

GenerateTestData ==
    /\ pc = "ready"
    /\ \E a \in BatchArguments :
          /\ CompletesWithBatch(Call("generate_test_data", "", a[1], a[2], a[3]),
                                generate_test_data(parameters, a[1], a[2], a[3]))
          /\ reads' = BatchReads(parameters, a[1], a[2], a[3], 1)
    /\ UNCHANGED <<rows, parameters>>

CompareScenarios ==
    /\ pc = "ready"
    /\ \E m \in StageMonths :
          CompletesWithComparison(Call("compare_scenarios", "", m, 0, ComparedScenarios),
                                  compare_scenarios(parameters, m))
    /\ reads' = <<>>
    /\ UNCHANGED <<rows, parameters>>

NaiveInterpolateValue ==
    /\ pc = "ready"
    /\ \E t \in NaiveTypes, m \in NaiveMonths, s \in Scenarios :
          CompletesWithValue(Call("naive.interpolate_value", t, m, 0, <<s>>),
                             naive_interpolate_value(parameters, t, m, s))
    /\ reads' = <<>>
    /\ UNCHANGED <<rows, parameters>>

NaiveCalculateAccounts ==
    /\ pc = "ready"
    /\ \E m \in NaiveMonths, s \in Scenarios :
          CompletesWithDict(Call("naive.calculate_accounts", "", m, 0, <<s>>),
                            naive_calculate_accounts(parameters, m, s))
    /\ reads' = <<>>
    /\ UNCHANGED <<rows, parameters>>

NaiveCalculateTransactions ==
    /\ pc = "ready"
    /\ \E m \in NaiveMonths, s \in Scenarios :
          CompletesWithDict(Call("naive.calculate_transactions", "", m, 0, <<s>>),
                            naive_calculate_transactions(parameters, m, s))
    /\ reads' = <<>>
    /\ UNCHANGED <<rows, parameters>>

NaiveCalculateRevenue ==
    /\ pc = "ready"
    /\ \E m \in NaiveMonths, s \in Scenarios :
          CompletesWithDict(Call("naive.calculate_revenue", "", m, 0, <<s>>),
                            naive_calculate_revenue(parameters, m, s))
    /\ reads' = <<>>
    /\ UNCHANGED <<rows, parameters>>

\* A validator that drops its table once a call has returned.
ReturnAndForget ==
    /\ pc = "returned"
    /\ pc' = "ready"
    /\ call' = NoCall
    /\ result' = <<>>
    /\ reads' = <<>>
    /\ parameters' = None
    /\ UNCHANGED rows

\* The caller takes the returned value; the validator is ready for the next call.
Return ==
    /\ pc = "returned"
    /\ pc' = "ready"
    /\ call' = NoCall
    /\ result' = <<>>
    /\ reads' = <<>>
    /\ UNCHANGED <<rows, parameters>>

Next ==
    \/ LoadParameters
    \/ InterpolateValue
    \/ GetAccountsWithScenario
    \/ CalculateAccounts
    \/ CalculateTransactions
    \/ CalculateRevenue
    \/ GenerateTestData
    \/ CompareScenarios
    \/ NaiveInterpolateValue
    \/ NaiveCalculateAccounts
    \/ NaiveCalculateTransactions
    \/ NaiveCalculateRevenue
    \/ Return

Spec == Init /\ [][Next]_vars

----------------------------------------------------------------------------
(* Vocabulary of the properties.                                           *)

\* The call of op has completed, by returning or by raising.
Done(op) == pc \in {"returned", "raised"} /\ call.op = op

\* x == y as Python compares two floats: NaN equals nothing, and a value
\* whose evaluation raised does not exist.
PyEq(x, y) == ~Raised(x) /\ ~Raised(y) /\ ~IsNaN(x) /\ ~IsNaN(y) /\ x = y

\* The sheet gave the table a value for (t, m).
Populated(p, t, m) == <<t, m>> \in DOMAIN p.cells

\* The raw table value of (t, m).
TableValue(p, t, m) == p.cells[<<t, m>>]

Anchors == <<1, 6, 12, 24, 36>>

\* va + (vb - va) * (month - a) / (b - a)
Linear(va, vb, a, b, month) == RAdd(va, RMul(RSub(vb, va), Rat(month - a, b - a)))

\* The growth rate as documented: the table value of (GrowthRateM37Plus, 37),
\* else 0.01.
ResolvedGrowth(p) ==
    IF Populated(p, GrowthType, 37) THEN TableValue(p, GrowthType, 37) ELSE Rat(1, 100)

\* v36 * (1 + g)^(month - 36)
Compounded(v36, g, month) == RMul(v36, RPow(RAdd(One, g), month - 36))

\* The anchor value as documented: the table value, 0 when there is none.
ZeroFilled(p, t, m) == IF Populated(p, t, m) THEN TableValue(p, t, m) ELSE Zero

\* The documented interpolation of an input-type of the table, a missing
\* anchor counting as 0.
ZeroFilledInterpolation(p, t, month) ==
    IF month = 1 THEN ZeroFilled(p, t, 1)
    ELSE IF month <= 6
    THEN Linear(ZeroFilled(p, t, 1), ZeroFilled(p, t, 6), 1, 6, month)
    ELSE IF month <= 12
    THEN Linear(ZeroFilled(p, t, 6), ZeroFilled(p, t, 12), 6, 12, month)
    ELSE IF month <= 24
    THEN Linear(ZeroFilled(p, t, 12), ZeroFilled(p, t, 24), 12, 24, month)
    ELSE IF month <= 36
    THEN Linear(ZeroFilled(p, t, 24), ZeroFilled(p, t, 36), 24, 36, month)
    ELSE Compounded(ZeroFilled(p, t, 36), ResolvedGrowth(p), month)

\* The formula of the band that starts at the boundary m, evaluated at m, on
\* the anchor values interpolate_value reads.
StartingBandAt(p, t, m) ==
    IF m = 6 THEN Band(RowGet(p, t, 6, Zero), RowGet(p, t, 12, Zero), 6, 6, m)
    ELSE IF m = 12 THEN Band(RowGet(p, t, 12, Zero), RowGet(p, t, 24, Zero), 12, 12, m)
    ELSE IF m = 24 THEN Band(RowGet(p, t, 24, Zero), RowGet(p, t, 36, Zero), 24, 12, m)
    ELSE Extrapolate(p, RowGet(p, t, 36, Zero), m)

\* x scales from the Base row to the scenario row as total_accounts does:
\* x_s * a_base == x_base * a_s, written as x_s == x_base * (a_s / a_base)
\* where a_base is a number other than 0.
Proportional(x_s, x_base, a_s, a_base) ==
    IF IsNumber(a_base) /\ a_base.n # 0
    THEN PyEq(x_s, RMul(x_base, RDiv(a_s, a_base)))
    ELSE PyEq(RMul(x_s, a_base), RMul(x_base, a_s))

\* Every entry of the dict d of the scenario row is proportional to the
\* entry of the Base row.
DictProportional(d_s, d_base, a_s, a_base) ==
    \A f \in DOMAIN d_s : Proportional(d_s[f], d_base[f], a_s, a_base)

\* Every entry of the dict d is the number 0.
AllZero(d) == \A f \in DOMAIN d : PyEq(d[f], Zero)

\* Every entry of the dict d is a defined number.
AllNumbers(d) == \A f \in DOMAIN d : IsNumber(d[f])

----------------------------------------------------------------------------
(* Properties.                                                             *)

\* C1: scenario isolation.  In a batch, the values the three stages read for
\* the input-types other than Accounts (the shares, the seven per-active
\* rates, the seven fee rates) are identical under any two scenarios of the
\* same month.
C1_ScenarioIsolation ==
    Done("generate_test_data") =>
        \A i, j \in 1 .. Len(reads) :
            reads[i].Month = reads[j].Month => reads[i].inputs = reads[j].inputs

\* A returned batch holding, for one month, a Base row and a High_25 row that
\* read the same positive ActiveShare and differ in total_accounts.
C1_Witness ==
    /\ pc = "returned"
    /\ call.op = "generate_test_data"
    /\ \E i, j \in 1 .. Len(reads) :
          /\ reads[i].Month = reads[j].Month
          /\ reads[i].Scenario = "Base"
          /\ reads[j].Scenario = "High_25"
          /\ RPositive(reads[i].inputs["ActiveShare"])
          /\ reads[i].inputs = reads[j].inputs
          /\ result[i].Accounts.total_accounts # result[j].Accounts.total_accounts

\* C2: revenue proportionality.  In a batch, for every month and scenario,
\* total_revenue, the active, checking and savings accounts, every channel
\* volume and every channel revenue of the scenario row stand to those of the
\* Base row of the month as total_accounts does.
C2_RevenueProportionality ==
    Done("generate_test_data") =>
        \A i, j \in 1 .. Len(result) :
            (result[i].Month = result[j].Month /\ result[j].Scenario = "Base") =>
                /\ DictProportional(result[i].Accounts, result[j].Accounts,
                                    result[i].Accounts.total_accounts,
                                    result[j].Accounts.total_accounts)
                /\ DictProportional(result[i].Transactions, result[j].Transactions,
                                    result[i].Accounts.total_accounts,
                                    result[j].Accounts.total_accounts)
                /\ DictProportional(result[i].Revenue, result[j].Revenue,
                                    result[i].Accounts.total_accounts,
                                    result[j].Accounts.total_accounts)

\* A returned batch whose High_10 row has 1.1 times the accounts of the Base
\* row of the month and a total_revenue that is not a number.
C2_Witness ==
    /\ pc = "returned"
    /\ call.op = "generate_test_data"
    /\ \E i, j \in 1 .. Len(result) :
          /\ result[i].Month = result[j].Month
          /\ result[j].Scenario = "Base"
          /\ result[i].Scenario = "High_10"
          /\ RPositive(result[j].Accounts.total_accounts)
          /\ result[i].Accounts.total_accounts
                 = RMul(result[j].Accounts.total_accounts, Rat(11, 10))
          /\ IsNaN(result[i].Revenue["total_revenue"])

C4_AnchorExactness ==
    (/\ Done("interpolate_value")
     /\ \E k \in 1 .. Len(Anchors) : call.month = Anchors[k]
     /\ Populated(parameters, call.input_type, call.month)) =>
        PyEq(result, TableValue(parameters, call.input_type, call.month))

\* interpolate_value has returned NaN at an anchor month whose value the
\* table holds.
C4_Witness ==
    /\ pc = "returned"
    /\ call.op = "interpolate_value"
    /\ call.month = 6
    /\ Populated(parameters, call.input_type, 6)
    /\ ~Populated(parameters, call.input_type, 1)
    /\ IsNaN(result)

\* C5: band continuity.  At a boundary m in {6, 12, 24, 36} the band ending
\* at m, which interpolate_value uses, and the band starting at m (for 36 the
\* compounding with exponent 0) yield the same value.
C5_BandContinuity ==
    (/\ Done("interpolate_value")
     /\ call.month \in {6, 12, 24, 36}
     /\ call.input_type \in Index(parameters)) =>
        PyEq(result, StartingBandAt(parameters, call.input_type, call.month))

\* At the boundary 6 the ending band has returned NaN where the starting band
\* yields the table value.
C5_Witness ==
    /\ pc = "returned"
    /\ call.op = "interpolate_value"
    /\ call.month = 6
    /\ IsNaN(result)
    /\ Populated(parameters, call.input_type, 6)
    /\ StartingBandAt(parameters, call.input_type, 6)
           = TableValue(parameters, call.input_type, 6)

\* C6: extrapolation law.  For a month beyond 36 and an input-type whose
\* month-36 value the table holds, interpolate_value returns
\* value(36) * (1 + g)^(month - 36), g being the table value of
\* (GrowthRateM37Plus, 37), else 0.01.
C6_ExtrapolationLaw ==
    (/\ Done("interpolate_value")
     /\ call.month > 36
     /\ Populated(parameters, call.input_type, 36)) =>
        PyEq(result, Compounded(TableValue(parameters, call.input_type, 36),
                                ResolvedGrowth(parameters), call.month))

\* interpolate_value has returned for a month beyond 36, and not the
\* documented compounding of the month-36 value the table holds.
C6_Witness ==
    /\ pc = "returned"
    /\ call.op = "interpolate_value"
    /\ call.month > 36
    /\ Populated(parameters, call.input_type, 36)
    /\ result # Compounded(TableValue(parameters, call.input_type, 36),
                           ResolvedGrowth(parameters), call.month)

\* C7: growth-rate default.  When the table holds no value for
\* (GrowthRateM37Plus, 37), the input-type being absent or present only at
\* other months, interpolate_value for a month beyond 36 compounds the
\* month-36 value at the rate 0.01.
C7_GrowthRateDefault ==
    (/\ Done("interpolate_value")
     /\ call.month > 36
     /\ ~Populated(parameters, GrowthType, 37)
     /\ Populated(parameters, call.input_type, 36)) =>
        PyEq(result, Compounded(TableValue(parameters, call.input_type, 36),
                                Rat(1, 100), call.month))

\* interpolate_value has raised KeyError for a month beyond 36 on a table
\* that holds GrowthRateM37Plus at other months only and has no month 37.
C7_Witness ==
    /\ pc = "raised"
    /\ call.op = "interpolate_value"
    /\ call.month > 36
    /\ GrowthType \in Index(parameters)
    /\ 37 \notin Columns(parameters)
    /\ Populated(parameters, call.input_type, 36)

\* C8: missing anchor value.  For an input-type of the table that lacks the
\* value of some anchor month, interpolate_value returns, for every month,
\* the number the band formula gives with 0 for the missing anchor.
C8_MissingAnchor ==
    (/\ Done("interpolate_value")
     /\ call.input_type \in Index(parameters)
     /\ \E k \in 1 .. Len(Anchors) :
            ~Populated(parameters, call.input_type, Anchors[k])) =>
        /\ IsNumber(result)
        /\ result = ZeroFilledInterpolation(parameters, call.input_type, call.month)

\* interpolate_value has returned NaN for a month up to 36 and an input-type
\* that lacks an anchor value in a month other input-types have.
C8_Witness ==
    /\ pc = "returned"
    /\ call.op = "interpolate_value"
    /\ call.month <= 36
    /\ call.input_type \in Index(parameters)
    /\ \E k \in 1 .. Len(Anchors) :
          /\ ~Populated(parameters, call.input_type, Anchors[k])
          /\ Anchors[k] \in Columns(parameters)
    /\ IsNaN(result)

\* C9: missing input-type.  interpolate_value returns 0 for an input-type the
\* table does not hold, at every month; and when the table holds no Accounts
\* or no ActiveShare, every transaction volume and every revenue is 0.
C9_MissingInputType ==
    /\ (Done("interpolate_value") /\ call.input_type \notin Index(parameters)) =>
           (pc = "returned" /\ result = Zero)
    /\ (/\ call.op \in {"calculate_transactions", "calculate_revenue"}
        /\ pc \in {"returned", "raised"}
        /\ ("Accounts" \notin Index(parameters)
               \/ "ActiveShare" \notin Index(parameters))) =>
           (pc = "returned" /\ AllZero(result))

\* calculate_revenue has completed on a table without Accounts, and not with
\* every revenue 0.
C9_Witness ==
    /\ call.op = "calculate_revenue"
    /\ pc \in {"returned", "raised"}
    /\ "Accounts" \notin Index(parameters)
    /\ ~AllZero(result)

\* C10: never raises.  interpolate_value, calculate_accounts,
\* calculate_transactions, calculate_revenue and compare_scenarios complete,
\* for every table, month and scenario, with defined numbers and without an
\* exception.
C10_NeverRaises ==
    /\ pc # "raised"
    /\ (pc = "returned" /\ call.op = "interpolate_value") => IsNumber(result)
    /\ (/\ pc = "returned"
        /\ call.op \in {"calculate_accounts", "calculate_transactions",
                        "calculate_revenue"}) => AllNumbers(result)
    /\ (pc = "returned" /\ call.op = "compare_scenarios") =>
           \A i \in 1 .. Len(result) :
               /\ IsNumber(result[i].TotalAccounts)
               /\ IsNumber(result[i].ActiveAccounts)
               /\ IsNumber(result[i].TotalRevenue)
               /\ IsNumber(result[i].RevenuePerAccount)

\* compare_scenarios has raised KeyError.
C10_Witness ==
    /\ pc = "raised"
    /\ call.op = "compare_scenarios"
    /\ call.month > 36

\* The multiplier the scenario policy documents for the scenario name s.
DocumentedMultiplier(s) ==
    IF s = "High_10" THEN Rat(11, 10)
    ELSE IF s = "Low_10" THEN Rat(9, 10)
    ELSE IF s = "High_25" THEN Rat(5, 4)
    ELSE IF s = "Low_25" THEN Rat(3, 4)
    ELSE One

\* C11: scenario policy.  get_accounts_with_scenario(month, s) is
\* interpolate_value("Accounts", month) times the multiplier of s: 1.1, 0.9,
\* 1.25, 0.75 for High_10, Low_10, High_25, Low_25 and 1.0 for Base, Custom
\* and every other name, which therefore yield the Base result.
C11_ScenarioPolicy ==
    Done("get_accounts_with_scenario") =>
        /\ result = RMul(interpolate_value(parameters, "Accounts", call.month),
                         DocumentedMultiplier(call.scenarios[1]))
        /\ call.scenarios[1] \notin {"High_10", "Low_10", "High_25", "Low_25"} =>
               result = get_accounts_with_scenario(parameters, call.month, "Base")

\* get_accounts_with_scenario(3, "High_10") has returned 1320 where
\* interpolate_value("Accounts", 3) is 1200.
C11_Witness ==
    /\ pc = "returned"
    /\ call.op = "get_accounts_with_scenario"
    /\ call.month = 3
    /\ call.scenarios = <<"High_10">>
    /\ interpolate_value(parameters, "Accounts", 3) = Int2Num(1200)
    /\ result = Int2Num(1320)

\* The row of the Base scenario in a comparison.
BaseRowOf(comparison) ==
    comparison[CHOOSE i \in 1 .. Len(comparison) : comparison[i].Scenario = "Base"]

\* C12: division-by-zero policy.  In the rows compare_scenarios returns,
\* RevenuePerAccount, VarianceFromBase_Accounts and VarianceFromBase_Revenue
\* are 0 whenever their denominator (the row's TotalAccounts, the Base
\* TotalAccounts, the Base TotalRevenue) is 0.
C12_DivisionByZero ==
    Done("compare_scenarios") =>
        \A i \in 1 .. Len(result) :
            /\ result[i].TotalAccounts = Zero => result[i].RevenuePerAccount = Zero
            /\ BaseRowOf(result).TotalAccounts = Zero =>
                   result[i].VarianceFromBase_Accounts = Zero
            /\ BaseRowOf(result).TotalRevenue = Zero =>
                   result[i].VarianceFromBase_Revenue = Zero

\* compare_scenarios has returned rows whose TotalAccounts is 0, with
\* RevenuePerAccount 0 and a VarianceFromBase_Accounts that is NaN.
C12_Witness ==
    /\ pc = "returned"
    /\ call.op = "compare_scenarios"
    /\ BaseRowOf(result).TotalAccounts = Zero
    /\ \A i \in 1 .. Len(result) :
          /\ result[i].RevenuePerAccount = Zero
          /\ IsNaN(result[i].VarianceFromBase_Accounts)

\* (value - base_value) / base_value
VarianceFrom(value, base_value) == RDiv(RSub(value, base_value), base_value)

\* C13: variance from base.  compare_scenarios returns one row per scenario
\* in the order Base, High_10, Low_10, High_25, Low_25; each row's
\* VarianceFromBase_Revenue and VarianceFromBase_Accounts are
\* (value - base) / base against the Base row of the same call, so the
\* variances of the Base row are 0.
C13_VarianceFromBase ==
    Done("compare_scenarios") =>
        /\ pc = "returned"
        /\ Len(result) = 5
        /\ <<result[1].Scenario, result[2].Scenario, result[3].Scenario,
             result[4].Scenario, result[5].Scenario>>
               = <<"Base", "High_10", "Low_10", "High_25", "Low_25">>
        /\ \A i \in 1 .. Len(result) :
              /\ result[i].Month = call.month
              /\ result[i].VarianceFromBase_Revenue
                     = VarianceFrom(result[i].TotalRevenue, result[1].TotalRevenue)
              /\ result[i].VarianceFromBase_Accounts
                     = VarianceFrom(result[i].TotalAccounts, result[1].TotalAccounts)
        /\ result[1].VarianceFromBase_Revenue = Zero
        /\ result[1].VarianceFromBase_Accounts = Zero

\* compare_scenarios has returned its five rows in order, with positive
\* accounts, 0.1 as the High_10 accounts variance, and a Base row whose
\* revenue variance is NaN.
C13_Witness ==
    /\ pc = "returned"
    /\ call.op = "compare_scenarios"
    /\ Len(result) = 5
    /\ result[1].Scenario = "Base"
    /\ result[2].Scenario = "High_10"
    /\ RPositive(result[1].TotalAccounts)
    /\ result[1].VarianceFromBase_Accounts = Zero
    /\ result[2].VarianceFromBase_Accounts = Rat(1, 10)
    /\ IsNaN(result[1].VarianceFromBase_Revenue)

\* C14: stage 1.  calculate_accounts returns total = the interpolated
\* Accounts times the scenario's multiplier, active = total * ActiveShare,
\* checking = active * CheckingShare and savings = active * SavingShare, the
\* shares taken as interpolated for the month: a share above 1 or below 0,
\* or checking and savings shares summing above 1, reaches the result
\* unchanged.
C14_StageOne ==
    Done("calculate_accounts") =>
        /\ DOMAIN result = {"total_accounts", "active_accounts",
                            "checking_accounts", "savings_accounts"}
        /\ pc = "returned" =>
              /\ result.total_accounts
                     = RMul(interpolate_value(parameters, "Accounts", call.month),
                            DocumentedMultiplier(call.scenarios[1]))
              /\ result.active_accounts
                     = RMul(result.total_accounts,
                            interpolate_value(parameters, "ActiveShare", call.month))
              /\ result.checking_accounts
                     = RMul(result.active_accounts,
                            interpolate_value(parameters, "CheckingShare", call.month))
              /\ result.savings_accounts
                     = RMul(result.active_accounts,
                            interpolate_value(parameters, "SavingShare", call.month))

\* calculate_accounts(1, "High_10") has returned on a sheet whose month-1
\* shares are 3/2, 3/4 and 1/2: more active accounts than accounts, and
\* checking plus savings above the active accounts.
C14_Witness ==
    /\ pc = "returned"
    /\ call.op = "calculate_accounts"
    /\ call.month = 1
    /\ call.scenarios = <<"High_10">>
    /\ interpolate_value(parameters, "ActiveShare", 1) = Rat(3, 2)
    /\ interpolate_value(parameters, "CheckingShare", 1) = Rat(3, 4)
    /\ interpolate_value(parameters, "SavingShare", 1) = Rat(1, 2)
    /\ result.total_accounts = Int2Num(1100)
    /\ result.active_accounts = Int2Num(1650)
    /\ result.checking_accounts = Rat(2475, 2)
    /\ result.savings_accounts = Int2Num(825)

\* calculate_accounts(6, "Base") has returned on a sheet whose month-6
\* CheckingShare is -1/4: a negative number of checking accounts.
C14_WitnessNegative ==
    /\ pc = "returned"
    /\ call.op = "calculate_accounts"
    /\ call.month = 6
    /\ interpolate_value(parameters, "CheckingShare", 6) = Rat(-1, 4)
    /\ result.active_accounts = Int2Num(750)
    /\ result.checking_accounts = Rat(-375, 2)

\* The sum of the seven channel entries of the dict d, and of nothing else.
SevenChannelSum(d) ==
    RAdd(RAdd(RAdd(RAdd(RAdd(RAdd(RAdd(Zero, d.ach_incoming), d.ach_outgoing),
                             d.rtp_incoming), d.rtp_outgoing),
                   d.wire_incoming), d.wire_outgoing), d.debit_card)

\* C15: stages 2 and 3.  Each of the seven channel volumes is
\* active_accounts * its per-active rate, each of the seven channel revenues
\* is that channel's volume * its fee rate, total_volume is the sum of
\* exactly the seven volumes and total_revenue the sum of exactly the seven
\* revenues.
C15_StageTotals ==
    /\ (pc = "returned" /\ call.op = "calculate_transactions") =>
          /\ DOMAIN result = ChannelSet \cup {"total_volume"}
          /\ Cardinality(ChannelSet) = 7
          /\ \A c \in ChannelSet :
                result[c] = RMul(calculate_accounts(parameters, call.month,
                                                    call.scenarios[1]).active_accounts,
                                 interpolate_value(parameters, PerActiveType(c), call.month))
          /\ result.total_volume = SevenChannelSum(result)
    /\ (pc = "returned" /\ call.op = "calculate_revenue") =>
          /\ DOMAIN result = ChannelSet \cup {"total_revenue"}
          /\ \A c \in ChannelSet :
                result[c] = RMul(calculate_transactions(parameters, call.month,
                                                        call.scenarios[1])[c],
                                 interpolate_value(parameters, FeeType(c), call.month))
          /\ result.total_revenue = SevenChannelSum(result)

\* calculate_revenue(1, "Base") has returned on a sheet with 750 active
\* accounts at month 1: revenues 375 and 2250 on the two channels that
\* carry traffic, 2625 in total.
C15_Witness ==
    /\ pc = "returned"
    /\ call.op = "calculate_revenue"
    /\ call.month = 1
    /\ call.scenarios = <<"Base">>
    /\ calculate_accounts(parameters, 1, "Base").active_accounts = Int2Num(750)
    /\ result.ach_incoming = Int2Num(375)
    /\ result.wire_incoming = Int2Num(2250)
    /\ result.total_revenue = Int2Num(2625)

\* The value of the first row of the sequence s that carries the pair k.
FirstRowValue(s, k) ==
    s[CHOOSE i \in 1 .. Len(s) :
          /\ <<s[i].InputType, s[i].Month>> = k
          /\ \A h \in 1 .. (i - 1) : <<s[h].InputType, s[h].Month>> # k].Value

\* C16: Parameter Table construction.  Once load_parameters has run on the
\* rows of the sheet, the table holds one value for each (input_type, month)
\* pair some row carries, and it is the value of the first row carrying that
\* pair, whatever rows follow it.
C16_FirstSeenWins ==
    pc # "init" =>
        \A i \in 1 .. Len(rows) :
            Cell(parameters, rows[i].InputType, rows[i].Month)
                = FirstRowValue(rows, <<rows[i].InputType, rows[i].Month>>)

\* load_parameters has run on a sheet with two rows for (ActiveShare, 1),
\* 3/2 ahead of 3/4, and two rows for (Accounts, 6), 1500 ahead of 9000: the
\* table holds 3/2 and 1500.
C16_Witness ==
    /\ pc # "init"
    /\ \E i, j \in 1 .. Len(rows) :
          /\ i < j
          /\ rows[i] = Row("ActiveShare", 1, Rat(3, 2))
          /\ rows[j] = Row("ActiveShare", 1, Rat(3, 4))
    /\ \E i, j \in 1 .. Len(rows) :
          /\ i < j
          /\ rows[i] = Row("Accounts", 6, Int2Num(1500))
          /\ rows[j] = Row("Accounts", 6, Int2Num(9000))
    /\ Cell(parameters, "ActiveShare", 1) = Rat(3, 2)
    /\ Cell(parameters, "Accounts", 6) = Int2Num(1500)

\* What the call c returns (or raises) on the table p.
ResultOf(p, c) ==
    CASE c.op = "interpolate_value" -> interpolate_value(p, c.input_type, c.month)
      [] c.op = "get_accounts_with_scenario" ->
             get_accounts_with_scenario(p, c.month, c.scenarios[1])
      [] c.op = "calculate_accounts" -> calculate_accounts(p, c.month, c.scenarios[1])
      [] c.op = "calculate_transactions" ->
             calculate_transactions(p, c.month, c.scenarios[1])
      [] c.op = "calculate_revenue" -> calculate_revenue(p, c.month, c.scenarios[1])
      [] c.op = "generate_test_data" -> generate_test_data(p, c.month, c.hi, c.scenarios)
      [] c.op = "compare_scenarios" -> compare_scenarios(p, c.month)
      [] c.op = "naive.interpolate_value" ->
             naive_interpolate_value(p, c.input_type, c.month, c.scenarios[1])
      [] c.op = "naive.calculate_accounts" ->
             naive_calculate_accounts(p, c.month, c.scenarios[1])
      [] c.op = "naive.calculate_transactions" ->
             naive_calculate_transactions(p, c.month, c.scenarios[1])
      [] c.op = "naive.calculate_revenue" ->
             naive_calculate_revenue(p, c.month, c.scenarios[1])

\* C17: build-then-freeze and referential transparency.  Once
\* load_parameters has completed no step changes the Parameter Table, and
\* whatever calls came before, the outcome of a call is the one its
\* arguments give on that table.
C17_BuildThenFreeze ==
    [][/\ pc # "init" => parameters' = parameters
       /\ pc' \in {"returned", "raised"} => result' = ResultOf(parameters, call')]_vars

\* calculate_revenue has returned a positive total on the table exactly as
\* load_parameters built it.
C17_Witness ==
    /\ pc = "returned"
    /\ call.op = "calculate_revenue"
    /\ parameters = pivot_table(rows)
    /\ parameters # None
    /\ result = ResultOf(parameters, call)
    /\ RPositive(result.total_revenue)

\* The scenarios whose multiplier is 1.0: Base, Custom, and any name the
\* table of multipliers does not list.
NeutralScenarios == {s \in Scenarios : s \notin {"High_10", "Low_10", "High_25", "Low_25"}}

\* C18: on a scenario with multiplier 1.0 the first validator and the
\* corrected one agree: interpolate_value, calculate_accounts,
\* calculate_transactions and calculate_revenue of the first give, on the
\* same table and month, what the corrected validator gives, entry by entry.
C18_NaiveEquivalence ==
    (pc \in {"returned", "raised"} /\ call.scenarios # <<>>
     /\ call.scenarios[1] \in NeutralScenarios) =>
        /\ call.op = "naive.interpolate_value" =>
               result = interpolate_value(parameters, call.input_type, call.month)
        /\ call.op = "naive.calculate_accounts" =>
               \A f \in DOMAIN result \cup {"total_accounts", "active_accounts",
                                            "checking_accounts", "savings_accounts"} :
                   result[f] = calculate_accounts(parameters, call.month,
                                                  call.scenarios[1])[f]
        /\ call.op = "naive.calculate_transactions" =>
               \A f \in DOMAIN result \cup ChannelSet \cup {"total_volume"} :
                   result[f] = calculate_transactions(parameters, call.month,
                                                      call.scenarios[1])[f]
        /\ call.op = "naive.calculate_revenue" =>
               \A f \in DOMAIN result \cup ChannelSet \cup {"total_revenue"} :
                   result[f] = calculate_revenue(parameters, call.month,
                                                 call.scenarios[1])[f]

\* The first validator's calculate_revenue(3, "Custom") has returned the
\* positive total the corrected validator computes for month 3.
C18_Witness ==
    /\ pc = "returned"
    /\ call.op = "naive.calculate_revenue"
    /\ call.month = 3
    /\ call.scenarios = <<"Custom">>
    /\ RPositive(result.total_revenue)
    /\ result.total_revenue = calculate_revenue(parameters, 3, "Base").total_revenue

\* Whether every entry of the dict d is k^n times its entry in the dict b.
ScaledBy(d, b, k, n) ==
    /\ DOMAIN d = DOMAIN b
    /\ \A f \in DOMAIN d : PyEq(d[f], RMul(RPow(k, n), b[f]))

\* C19: in the first validator the scenario's multiplier k reaches every
\* interpolated input: total_accounts is k times its Base value,
\* active_accounts k^2 times, every channel volume and total_volume k^3
\* times, every channel revenue and total_revenue k^4 times; so for k other
\* than 1 total_revenue is not k times its Base value.
C19_NaivePowers ==
    /\ Done("naive.calculate_accounts") =>
          /\ pc = "returned"
          /\ PyEq(result.total_accounts,
                  RMul(DocumentedMultiplier(call.scenarios[1]),
                       naive_calculate_accounts(parameters, call.month,
                                                "Base").total_accounts))
          /\ PyEq(result.active_accounts,
                  RMul(RPow(DocumentedMultiplier(call.scenarios[1]), 2),
                       naive_calculate_accounts(parameters, call.month,
                                                "Base").active_accounts))
    /\ Done("naive.calculate_transactions") =>
          /\ pc = "returned"
          /\ ScaledBy(result,
                      naive_calculate_transactions(parameters, call.month, "Base"),
                      DocumentedMultiplier(call.scenarios[1]), 3)
    /\ Done("naive.calculate_revenue") =>
          /\ pc = "returned"
          /\ ScaledBy(result,
                      naive_calculate_revenue(parameters, call.month, "Base"),
                      DocumentedMultiplier(call.scenarios[1]), 4)
          /\ DocumentedMultiplier(call.scenarios[1]) # One =>
                 ~PyEq(result.total_revenue,
                       RMul(DocumentedMultiplier(call.scenarios[1]),
                            naive_calculate_revenue(parameters, call.month,
                                                    "Base").total_revenue))

\* The first validator's calculate_revenue(1, "High_10") has returned
\* 1.1^4 * 2625 where its Base total is 2625.
C19_Witness ==
    /\ pc = "returned"
    /\ call.op = "naive.calculate_revenue"
    /\ call.month = 1
    /\ call.scenarios = <<"High_10">>
    /\ naive_calculate_revenue(parameters, 1, "Base").total_revenue = Int2Num(2625)
    /\ result.total_revenue = RMul(Rat(14641, 10000), Int2Num(2625))

=============================================================================
